---- MODULE Spec2Model ----
(***************************************************************************)
(* The check-in service of greensboro-checkin: the Attendance table, the   *)
(* browser sessions, the admin cookie and the request handlers of          *)
(* app/routers/attendance.py, app/routers/metrics.py and app/main.py.      *)
(*                                                                         *)
(* Time is counted in ticks.  A UTC calendar day has TicksPerDay ticks and *)
(* America/New_York is NYOffset ticks behind UTC, so that at the first     *)
(* tick of a UTC day the New York calendar still shows the previous day.   *)
(*                                                                         *)
(* Spec is every interleaving of every handler.  The properties are        *)
(* checked under its restrictions SpecCheckin (the check-in requests, one  *)
(* at a time), SpecConcurrent (overlapping /finalize requests beside       *)
(* scans, logins and admin deletes), SpecAdmin (the admin pages beside     *)
(* scans), SpecMetrics (the metrics endpoints beside the check-in          *)
(* requests) and SpecRecords (the check-in requests and the admin's        *)
(* changes to the table, one request at a time).                           *)
(***************************************************************************)
EXTENDS Integers, FiniteSets, Sequences, TLC

\* ------------------------------------------------------------------ bounds
MaxRows == 2        \* the largest id the table hands out
MaxTick == 3        \* last tick of the clock

\* ------------------------------------------------------------ configuration
TicksPerDay == 2
NYOffset == 1

\* one browser; it logs in as either email
Clients == {"c1"}
Reqs == {"r1", "r2"}
\* a new request takes the first free slot
SlotOrder == {<<"r1", "r2">>}

NoUser == "no_user"
NoSite == "no_site"
NoValue == "none"
NoCookie == "no_cookie"

Emails == {"a@x.com", "b@x.com"}
Outsider == "m@other.org"

sites == {"greensboro", "remote"}
default_site == "greensboro"
SiteInputs == {NoSite, "greensboro", "remote", "warehouse"}

admin_password == "change-me-please"
PasswordInputs == {admin_password, "guess"}
super_secret_token == "super_secret_token"

\* settings.allowed_domains, and the domain of an email
allowed_domains == {"x.com"}
DomainOf(e) == IF e \in Emails THEN "x.com" ELSE "other.org"

NameOf(e) == IF e = "a@x.com" THEN "Ann" ELSE IF e = "b@x.com" THEN "Bob" ELSE NoValue

\* ------------------------------------------------------------------- state
VARIABLES
    attendance,     \* the Attendance table: a set of rows
    next_id,        \* the next generated primary key
    session,        \* per browser: the signed session cookie's content
    admin_auth,     \* the admin browser's admin_auth cookie
    sso_required,   \* settings.sso_required, read from the environment
    now,            \* the clock, in ticks
    req,            \* the /finalize requests in flight
    db_open,        \* the database sessions that are open
    last            \* the last response sent

vars == <<attendance, next_id, session, admin_auth, sso_required, now, req, db_open, last>>

\* ----------------------------------------------------------------- helpers
\* token = str(rec.id)
Str(id) == ToString(id)

\* datetime.now(timezone.utc).date(): the UTC calendar day of a tick
UtcDate(t) == t \div TicksPerDay

\* now_utc.astimezone(ZoneInfo("America/New_York")).strftime("%Y-%m-%d"):
\* the New York calendar day of a UTC tick
LocalDate(t) == (t - NYOffset) \div TicksPerDay

\* an Attendance row, as scan creates it (the columns no handler commits are left out)
Attendance(id, site, source, ts, local_date, user_name, user_email) ==
    [id |-> id, event_type |-> "check_in", is_valid |-> TRUE, source |-> source,
     timestamp_utc |-> ts, local_date |-> local_date, site |-> site,
     user_name |-> user_name, user_email |-> user_email, notes |-> NoValue]

Ids(table) == {row.id : row \in table}

\* db.get(Attendance, pk); only used where pk \in Ids(table)
Get(table, pk) == CHOOSE row \in table : row.id = pk

\* the rows that count as "already checked in" for an email on a local date
Finalized(table, email, day) ==
    {row \in table : /\ row.local_date = day
                     /\ row.user_email = email
                     /\ row.event_type = "check_in"
                     /\ row.is_valid = TRUE
                     /\ row.source = "qr_scan_finalized"}

\* the JSON body of a response that carries none of the metrics' fields
NoBody ==
    [labels |-> <<>>, data |-> <<>>, records |-> <<>>, month |-> 0,
     total_checkins |-> 0, reason_breakdown |-> {}, business_line_breakdown |-> {}]

\* the response of a handler
Resp(op, status, outcome, location, ok, message, token) ==
    [op |-> op, status |-> status, outcome |-> outcome, location |-> location,
     ok |-> ok, message |-> message, token |-> token, body |-> NoBody]

Redirect(op, status, location) ==
    Resp(op, status, "return", location, NoValue, NoValue, NoValue)
Page(op) == Resp(op, 200, "return", NoValue, NoValue, NoValue, NoValue)
HTTPException(op, status) ==
    Resp(op, status, "http_error", NoValue, NoValue, NoValue, NoValue)
\* an exception no handler catches: the framework answers 500
Uncaught(op) == Resp(op, 500, "exception", NoValue, NoValue, NoValue, NoValue)

EmptySession == [user |-> NoUser, intended_site |-> NoValue]
IdleReq ==
    [pc |-> "idle", db |-> NoValue, pk |-> 0, email |-> NoUser, dup |-> FALSE,
     marked |-> FALSE]

\* ---------------------------------------------------------------- get_db
\* db = SessionLocal(): every call makes a session of its own
SessionLocal(owner) == owner

\* get_db without the finally: the session is closed only on a normal return
get_db_closes_OnReturnOnly(outcome) == outcome = "return"

\* try: yield db / finally: db.close() -- the session is closed whatever the
\* handler's outcome ("return", "http_error", "exception")
get_db_closes(outcome) == TRUE

\* the open sessions once the request that owned handle h has ended
get_db(open, h, outcome) ==
    IF get_db_closes(outcome) THEN open \ {h} ELSE open \cup {h}

\* ------------------------------------------------------------------- Init
\* The table is persistent: at start-up it is empty, or holds a check-in that
\* was finalized earlier the same local day.
SeedRow == Attendance(1, default_site, "qr_scan_finalized", 1, LocalDate(1),
                      NameOf("a@x.com"), "a@x.com")

Init ==
    /\ attendance \in {{}, {SeedRow}}
    /\ next_id = Cardinality(attendance) + 1
    /\ session = [c \in Clients |-> EmptySession]
    /\ admin_auth = NoCookie
    /\ sso_required \in BOOLEAN
    /\ now = 1
    /\ req = [r \in Reqs |-> IdleReq]
    /\ db_open = {}
    /\ last = Page("start")

\* ------------------------------------------------------------------- scan
\* the requested site is dropped and the default stored
site_or_default_AlwaysDefault(site) == default_site

\* site or settings.default_site
site_or_default(site) == IF site = NoSite THEN default_site ELSE site

\* scan without the allow-list check
resolve_site_Unchecked(requested) == requested

\* lines 51-53: a site outside settings.sites becomes the default site
resolve_site(requested) == IF requested \in sites THEN requested ELSE default_site

\* GET /scan?site=...
scan(c, site) ==
    LET requested == site_or_default(site)
        h == SessionLocal("scan")
    IN
    IF sso_required /\ session[c].user = NoUser
    THEN \* store the intended site and go to the login page; no row yet
         /\ session' = [session EXCEPT ![c].intended_site = requested]
         /\ last' = Redirect("scan", 307, "/login")
         /\ db_open' = get_db(db_open, h, "return")
         /\ UNCHANGED <<attendance, next_id, admin_auth, sso_required, now, req>>
    ELSE LET user_email == IF sso_required THEN session[c].user ELSE NoUser
             user_name == IF sso_required THEN NameOf(session[c].user) ELSE NoValue
             site_code == resolve_site(requested)
             rec == Attendance(next_id, site_code, "qr_scan_provisional", now,
                               LocalDate(now), user_name, user_email)
         IN
         /\ next_id <= MaxRows
         /\ attendance' = attendance \cup {rec}
         /\ next_id' = next_id + 1
         /\ last' = Resp("scan", 200, "return", NoValue, NoValue, NoValue, Str(rec.id))
         /\ db_open' = get_db(db_open, h, "return")
         /\ UNCHANGED <<session, admin_auth, sso_required, now, req>>

\* --------------------------------------------------------------- finalize
\* The handler is taken in two steps, the duplicate lookup and the commit:
\* requests served by different worker processes overlap between the two.

\* a payload class that declares visitReason too
FinalizePayload_WithVisitReason ==
    {"token", "site", "deviceId", "userAgent", "geo", "nameText",
     "signatureDataUrl", "visitReason"}

\* the fields FinalizePayload declares (lines 25-32); the model ignores any
\* other key of the JSON body
FinalizePayload == {"token", "site", "deviceId", "userAgent", "geo", "nameText",
                    "signatureDataUrl"}

BadToken == "abc"
TokenInputs == {Str(i) : i \in 1 .. MaxRows + 1} \cup {BadToken}

\* a parse that reads text that is no number as 0
ParseInt_Lenient(token) ==
    IF \E i \in 0 .. MaxRows + 1 : Str(i) = token
    THEN CHOOSE i \in 0 .. MaxRows + 1 : Str(i) = token
    ELSE 0

\* int(payload.token): the ValueError case is -1
ParseInt(token) ==
    IF \E i \in 0 .. MaxRows + 1 : Str(i) = token
    THEN CHOOSE i \in 0 .. MaxRows + 1 : Str(i) = token
    ELSE -1
IsInt(token) == ParseInt(token) # -1

\* the lookup of lines 109-117: another valid finalized check-in of this
\* email on today's local date
existing_finalized_checkin(table, pk, user_email, today) ==
    \E row \in Finalized(table, user_email, today) : row.id # pk

\* POST /finalize up to the duplicate lookup (lines 91-117)
finalize_begin(r, c, token) ==
    LET h == SessionLocal(r)
        pk == ParseInt(token)
    IN
    /\ req[r].pc = "idle"
    /\ \A q \in Reqs : <<q, r>> \in SlotOrder => req[q].pc # "idle"
    /\ \/ /\ ~IsInt(token)
          /\ last' = HTTPException("finalize", 400)
          /\ db_open' = get_db(db_open \cup {h}, h, "http_error")
          /\ UNCHANGED req
       \/ /\ IsInt(token)
          /\ pk \notin Ids(attendance)
          /\ last' = HTTPException("finalize", 404)
          /\ db_open' = get_db(db_open \cup {h}, h, "http_error")
          /\ UNCHANGED req
       \/ /\ IsInt(token)
          /\ pk \in Ids(attendance)
          /\ LET rec == Get(attendance, pk)
                 user_email == session[c].user
                 dup == /\ user_email # NoUser
                        /\ rec.event_type = "check_in"
                        /\ existing_finalized_checkin(attendance, pk, user_email,
                                                      LocalDate(now))
                 marked == /\ rec.is_valid = FALSE
                           /\ rec.notes = "Attempted duplicate check-in."
                           /\ rec.source = "qr_scan_duplicate"
             IN req' = [req EXCEPT ![r] = [pc |-> "checked", db |-> h, pk |-> pk,
                                           email |-> user_email, dup |-> dup,
                                           marked |-> marked]]
          /\ db_open' = db_open \cup {h}
          /\ UNCHANGED last
    /\ UNCHANGED <<attendance, next_id, session, admin_auth, sso_required, now>>

\* a duplicate branch that notes the attempt and leaves the row valid
MarkDuplicate_KeepsValid(row) ==
    [row EXCEPT !.notes = "Attempted duplicate check-in.",
                !.source = "qr_scan_duplicate"]

\* the duplicate branch (lines 122-124)
MarkDuplicate(row) ==
    [row EXCEPT !.is_valid = FALSE,
                !.notes = "Attempted duplicate check-in.",
                !.source = "qr_scan_duplicate"]

\* the finalize branch (lines 140-153): is_valid is kept, it is never None
Promote(row) == [row EXCEPT !.source = "qr_scan_finalized"]

\* POST /finalize from the decision on (lines 119-158).  In the duplicate
\* branch the UPDATE of a row that is gone raises; the error is caught at line
\* 133 and the handler goes on to line 139.  Line 145 reads payload.visitReason,
\* which raises AttributeError unless FinalizePayload declares the field: the
\* changes of lines 140-142 are then never committed.
finalize_finish(r) ==
    LET pk == req[r].pk
        h == req[r].db
        duplicate == req[r].dup /\ (req[r].marked \/ pk \in Ids(attendance))
    IN
    /\ req[r].pc = "checked"
    /\ req' = [req EXCEPT ![r] = IdleReq]
    /\ IF duplicate
       THEN /\ attendance' = {IF row.id = pk THEN MarkDuplicate(row) ELSE row :
                              row \in attendance}
            /\ last' = Resp("finalize", 200, "return", NoValue, "false",
                            "Already checked in today.", NoValue)
            /\ db_open' = get_db(db_open, h, "return")
       ELSE IF "visitReason" \in FinalizePayload /\ pk \in Ids(attendance)
       THEN /\ attendance' = {IF row.id = pk THEN Promote(row) ELSE row :
                              row \in attendance}
            /\ last' = Resp("finalize", 200, "return", NoValue, "true", NoValue, Str(pk))
            /\ db_open' = get_db(db_open, h, "return")
       ELSE /\ attendance' = attendance
            /\ last' = Uncaught("finalize")
            /\ db_open' = get_db(db_open, h, "exception")
    /\ UNCHANGED <<next_id, session, admin_auth, sso_required, now>>

\* ------------------------------------------------------- login and logout
\* /auth/callback: the identity provider returns the email; a domain outside
\* the allow-list is refused, otherwise {email, name} is stored in the session
auth_callback(c, email) ==
    /\ IF DomainOf(email) \in allowed_domains
       THEN /\ session' = [session EXCEPT ![c].user = email]
            /\ last' = Redirect("auth_callback", 307, "/scan")
       ELSE /\ session' = session
            /\ last' = HTTPException("auth_callback", 403)
    /\ UNCHANGED <<attendance, next_id, admin_auth, sso_required, now, req, db_open>>

\* the names main.py imports from .models (line 23)
main_imports == {"Attendance"}

\* POST /login: line 118 reads Employee, which main.py does not import:
\* NameError, before the session is touched
login_submit(c, email) ==
    LET h == SessionLocal("login") IN
    /\ IF "Employee" \in main_imports
       THEN /\ session' = [session EXCEPT ![c] = [user |-> email, intended_site |-> NoValue]]
            /\ last' = Redirect("login", 303, "/scan")
            /\ db_open' = get_db(db_open \cup {h}, h, "return")
       ELSE /\ session' = session
            /\ last' = Uncaught("login")
            /\ db_open' = get_db(db_open \cup {h}, h, "exception")
    /\ UNCHANGED <<attendance, next_id, admin_auth, sso_required, now, req>>

\* a logout that drops the user entry only
session_clear_UserOnly(s) == [s EXCEPT !.user = NoUser]

\* request.session.clear()
session_clear(s) == EmptySession

\* GET /logout
logout(c) ==
    /\ session' = [session EXCEPT ![c] = session_clear(session[c])]
    /\ last' = Redirect("logout", 303, "/")
    /\ UNCHANGED <<attendance, next_id, admin_auth, sso_required, now, req, db_open>>

\* ------------------------------------------------------------------ admin
\* POST /admin/login
process_admin_login(password) ==
    /\ IF password = admin_password
       THEN /\ admin_auth' = super_secret_token
            /\ last' = Redirect("admin_login", 303, "/admin")
       ELSE /\ admin_auth' = admin_auth
            /\ last' = Redirect("admin_login", 303, "/admin/login")
    /\ UNCHANGED <<attendance, next_id, session, sso_required, now, req, db_open>>

\* GET /admin/logout
admin_logout ==
    /\ admin_auth' = NoCookie
    /\ last' = Redirect("admin_logout", 303, "/")
    /\ UNCHANGED <<attendance, next_id, session, sso_required, now, req, db_open>>

\* a gate that accepts any cookie that is present
admin_cookie_ok_AnyCookie(cookie) == cookie # NoCookie

\* request.cookies.get("admin_auth") != "super_secret_token" is False
admin_cookie_ok(cookie) == cookie = super_secret_token

\* the cookie a request to an admin page carries: the browser's own, or one
\* the sender made up
SentCookies == {admin_auth, "forged"}

\* the columns models.py declares for Attendance that the handlers name
AttendanceColumns == {"id", "event_type", "timestamp_utc", "local_date", "site",
                      "user_name", "user_email", "source", "user_agent",
                      "device_local_id", "geo_lat", "geo_lon", "signature_path",
                      "is_valid", "notes", "updated_at_utc"}

\* GET /admin: lists the valid check-ins; the loop reads rec.visit_reason
\* (line 221), which no Attendance object has
admin_dashboard(cookie) ==
    LET h == SessionLocal("admin")
        all_records_raw == {row \in attendance :
                              row.event_type = "check_in" /\ row.is_valid = TRUE}
    IN
    /\ IF ~admin_cookie_ok(cookie)
       THEN /\ last' = Redirect("admin", 307, "/admin/login")
            /\ db_open' = get_db(db_open \cup {h}, h, "return")
       ELSE IF all_records_raw # {} /\ "visit_reason" \notin AttendanceColumns
       THEN /\ last' = Uncaught("admin")
            /\ db_open' = get_db(db_open \cup {h}, h, "exception")
       ELSE /\ last' = Page("admin")
            /\ db_open' = get_db(db_open \cup {h}, h, "return")
    /\ UNCHANGED <<attendance, next_id, session, admin_auth, sso_required, now, req>>

\* custom_date: a New York wall-clock tick, or text that strptime refuses
BadDate == -1
LateEvening == 1
DateInputs == {LateEvening, BadDate}

\* dt_obj.replace(tzinfo=est_zone).astimezone(timezone.utc)
ToUtc(local_tick) == local_tick + NYOffset
\* dt_est.strftime("%Y-%m-%d")
WallDate(local_tick) == local_tick \div TicksPerDay

\* POST /admin/add: Attendance(...) is called with visit_reason and
\* business_line, which are no columns: TypeError, caught at line 312
admin_add_record(cookie, user_name, site, custom_date) ==
    LET h == SessionLocal("admin_add")
        new_rec == Attendance(next_id, site, "admin_manual", ToUtc(custom_date),
                              WallDate(custom_date), user_name, NoUser)
    IN
    /\ IF ~admin_cookie_ok(cookie)
       THEN /\ last' = Redirect("admin_add", 303, "/admin/login")
            /\ UNCHANGED <<attendance, next_id>>
       ELSE IF /\ custom_date # BadDate
               /\ {"visit_reason", "business_line"} \subseteq AttendanceColumns
               /\ next_id <= MaxRows
       THEN /\ attendance' = attendance \cup {new_rec}
            /\ next_id' = next_id + 1
            /\ last' = Redirect("admin_add", 303, "/admin")
       ELSE /\ last' = Redirect("admin_add", 303, "/admin")
            /\ UNCHANGED <<attendance, next_id>>
    /\ db_open' = get_db(db_open \cup {h}, h, "return")
    /\ UNCHANGED <<session, admin_auth, sso_required, now, req>>

\* the row as lines 333-355 leave it
Edited(row, user_name, site, custom_date) ==
    IF custom_date = BadDate
    THEN [row EXCEPT !.user_name = user_name, !.site = site]
    ELSE [row EXCEPT !.user_name = user_name, !.site = site,
                     !.timestamp_utc = ToUtc(custom_date),
                     !.local_date = WallDate(custom_date)]

\* POST /admin/edit
admin_edit_record(cookie, record_id, user_name, site, custom_date) ==
    LET h == SessionLocal("admin_edit") IN
    /\ IF ~admin_cookie_ok(cookie)
       THEN /\ last' = Redirect("admin_edit", 303, "/admin/login")
            /\ attendance' = attendance
       ELSE /\ attendance' = {IF row.id = record_id
                              THEN Edited(row, user_name, site, custom_date)
                              ELSE row : row \in attendance}
            /\ last' = Redirect("admin_edit", 303, "/admin")
    /\ db_open' = get_db(db_open \cup {h}, h, "return")
    /\ UNCHANGED <<next_id, session, admin_auth, sso_required, now, req>>

\* POST /admin/delete
admin_delete_record(cookie, record_id) ==
    LET h == SessionLocal("admin_delete") IN
    /\ IF ~admin_cookie_ok(cookie)
       THEN /\ last' = Redirect("admin_delete", 303, "/admin/login")
            /\ attendance' = attendance
       ELSE /\ attendance' = {row \in attendance : row.id # record_id}
            /\ last' = Redirect("admin_delete", 303, "/admin")
    /\ db_open' = get_db(db_open \cup {h}, h, "return")
    /\ UNCHANGED <<next_id, session, admin_auth, sso_required, now, req>>

\* ---------------------------------------------------------------- metrics
\* the second argument of cast() at lines 31, 35 and 36: the name date, which
\* line 6 imports from datetime
cast_type == "datetime.date"

\* the type objects cast() accepts; it calls any other callable without
\* arguments, and datetime.date() raises TypeError
sqlalchemy_types == {"Date", "DateTime", "String", "Integer"}

\* the grouped query of lines 28-43: one (checkin_date, count) pair for each
\* UTC day of the range that has a valid check-in
daily_results(table, today) ==
    LET seven_days_ago == today - 6
        counted == {row \in table : /\ UtcDate(row.timestamp_utc) >= seven_days_ago
                                    /\ UtcDate(row.timestamp_utc) <= today
                                    /\ row.event_type = "check_in"
                                    /\ row.is_valid = TRUE}
    IN {<<d, Cardinality({row \in counted : UtcDate(row.timestamp_utc) = d})>> :
          d \in {UtcDate(row.timestamp_utc) : row \in counted}}

\* date_map.get(day, 0)
date_map_get(results, day) ==
    IF \E r \in results : r[1] = day
    THEN (CHOOSE r \in results : r[1] = day)[2]
    ELSE 0

\* lines 47-51: the labels and the data of the chart
daily_chart(table, today) ==
    LET seven_days_ago == today - 6
        results == daily_results(table, today)
        labels == [i \in 1 .. 7 |-> seven_days_ago + (i - 1)]
    IN [NoBody EXCEPT !.labels = labels,
                      !.data = [i \in 1 .. 7 |-> date_map_get(results, labels[i])]]

\* GET /api/metrics/daily_checkins_last_week: building the query raises
\* TypeError at line 31, cast() being handed datetime.date
get_daily_checkins_last_week ==
    LET h == SessionLocal("daily") IN
    /\ IF cast_type \in sqlalchemy_types
       THEN /\ last' = [Page("daily") EXCEPT !.body = daily_chart(attendance, UtcDate(now))]
            /\ db_open' = get_db(db_open \cup {h}, h, "return")
       ELSE /\ last' = Uncaught("daily")
            /\ db_open' = get_db(db_open \cup {h}, h, "exception")
    /\ UNCHANGED <<attendance, next_id, session, admin_auth, sso_required, now, req>>

\* a path parameter that names a date or a month: a day or month number, or
\* text the pattern refuses ("tomorrow"), or text the pattern accepts that
\* names no day or month ("2025-02-30", "2025-13")
BadFormat == -2
OutOfRange == -3

\* re.match(r"^\d{4}-\d{2}-\d{2}$", date_str), re.match(r"^\d{4}-\d{2}$", year_month)
re_match(text) == text # BadFormat

\* date.fromisoformat(date_str) returns; 1 <= month <= 12
in_calendar(text) == text >= 0

\* a filter that keeps finalized rows only
Reported_FinalizedOnly(table, day) ==
    {row \in table : /\ row.local_date = day
                     /\ row.event_type = "check_in"
                     /\ row.is_valid = TRUE
                     /\ row.source = "qr_scan_finalized"}

\* the filter of lines 70-74: the check-ins reported for a local date
Reported(table, day) ==
    {row \in table : /\ row.local_date = day
                     /\ row.event_type = "check_in"
                     /\ row.is_valid = TRUE}

\* .order_by(Attendance.timestamp_utc.asc()).all()
RECURSIVE order_by_timestamp(_)
order_by_timestamp(rows) ==
    IF rows = {}
    THEN <<>>
    ELSE LET first == CHOOSE r \in rows :
                        \A o \in rows : r.timestamp_utc <= o.timestamp_utc
         IN <<first>> \o order_by_timestamp(rows \ {first})

\* GET /api/metrics/attendance/{date_str}: the list comprehension reads
\* rec.visit_reason (line 87), which no Attendance object has
get_attendance_for_date(date_str) ==
    LET h == SessionLocal("attendance_for_date")
        records == Reported(attendance, date_str)
    IN
    /\ IF ~re_match(date_str) \/ ~in_calendar(date_str)
       THEN /\ last' = HTTPException("attendance_for_date", 400)
            /\ db_open' = get_db(db_open \cup {h}, h, "http_error")
       ELSE IF records # {} /\ "visit_reason" \notin AttendanceColumns
       THEN /\ last' = Uncaught("attendance_for_date")
            /\ db_open' = get_db(db_open \cup {h}, h, "exception")
       ELSE /\ last' = [Page("attendance_for_date") EXCEPT
                            !.body = [NoBody EXCEPT !.records = order_by_timestamp(records)]]
            /\ db_open' = get_db(db_open \cup {h}, h, "return")
    /\ UNCHANGED <<attendance, next_id, session, admin_auth, sso_required, now, req>>

\* extract('year', ...), extract('month', ...): the UTC month of a tick, in
\* months of DaysPerMonth days
DaysPerMonth == 2
MonthOf(t) == UtcDate(t) \div DaysPerMonth

\* record.visit_reason if record.visit_reason else "N/A", and the same for
\* business_line: no row stores either
reason_key(row) == "N/A"

\* lines 129-137: the rows counted under each key
breakdown_counts(rows) ==
    [key \in {reason_key(row) : row \in rows} |->
        Cardinality({row \in rows : reason_key(row) = key})]

\* round((count / total) * 100, 1), in tenths of a percent
round1(count, total) == (2000 * count + total) \div (2 * total)

\* format_breakdown: (key, count, percent in tenths) for every key
format_breakdown(counts_dict, total) ==
    {<<key, counts_dict[key], IF total > 0 THEN round1(counts_dict[key], total) ELSE 0>> :
       key \in DOMAIN counts_dict}

\* GET /api/metrics/monthly_summary/{year_month}: the query names
\* Attendance.visit_reason and Attendance.business_line (lines 118-119),
\* which the class does not have: AttributeError
get_monthly_summary(year_month) ==
    LET h == SessionLocal("monthly_summary")
        records_in_month == {row \in attendance : /\ MonthOf(row.timestamp_utc) = year_month
                                                  /\ row.event_type = "check_in"
                                                  /\ row.is_valid = TRUE}
        total_checkins == Cardinality(records_in_month)
        counts == breakdown_counts(records_in_month)
    IN
    /\ IF ~re_match(year_month) \/ ~in_calendar(year_month)
       THEN /\ last' = HTTPException("monthly_summary", 400)
            /\ db_open' = get_db(db_open \cup {h}, h, "http_error")
       ELSE IF ~({"visit_reason", "business_line"} \subseteq AttendanceColumns)
       THEN /\ last' = Uncaught("monthly_summary")
            /\ db_open' = get_db(db_open \cup {h}, h, "exception")
       ELSE /\ last' = [Page("monthly_summary") EXCEPT
                            !.body = [NoBody EXCEPT
                                        !.month = year_month,
                                        !.total_checkins = total_checkins,
                                        !.reason_breakdown =
                                            format_breakdown(counts, total_checkins),
                                        !.business_line_breakdown =
                                            format_breakdown(counts, total_checkins)]]
            /\ db_open' = get_db(db_open \cup {h}, h, "return")
    /\ UNCHANGED <<attendance, next_id, session, admin_auth, sso_required, now, req>>

\* ------------------------------------------------------------------ clock
Tick ==
    /\ now < MaxTick
    /\ now' = now + 1
    /\ UNCHANGED <<attendance, next_id, session, admin_auth, sso_required, req, db_open, last>>

\* ------------------------------------------------------------------- Next
EditNames == {"Edited"}
EditSites == {"remote"}

\* the dates and months a metrics request names
DateStrInputs == {LocalDate(t) : t \in 1 .. MaxTick} \cup {BadFormat, OutOfRange}
MonthInputs == {MonthOf(t) : t \in 1 .. MaxTick} \cup {BadFormat, OutOfRange}

Next ==
    \/ \E c \in Clients, site \in SiteInputs : scan(c, site)
    \/ \E r \in Reqs, c \in Clients, token \in TokenInputs : finalize_begin(r, c, token)
    \/ \E r \in Reqs : finalize_finish(r)
    \/ \E c \in Clients, email \in Emails \cup {Outsider} : auth_callback(c, email)
    \/ \E c \in Clients, email \in Emails : login_submit(c, email)
    \/ \E c \in Clients : logout(c)
    \/ \E password \in PasswordInputs : process_admin_login(password)
    \/ admin_logout
    \/ \E cookie \in SentCookies : admin_dashboard(cookie)
    \/ \E cookie \in SentCookies, user_name \in EditNames, site \in EditSites,
          custom_date \in DateInputs : admin_add_record(cookie, user_name, site, custom_date)
    \/ \E cookie \in SentCookies, record_id \in 1 .. MaxRows, user_name \in EditNames,
          site \in EditSites, custom_date \in DateInputs :
          admin_edit_record(cookie, record_id, user_name, site, custom_date)
    \/ \E cookie \in SentCookies, record_id \in 1 .. MaxRows :
          admin_delete_record(cookie, record_id)
    \/ get_daily_checkins_last_week
    \/ \E date_str \in DateStrInputs : get_attendance_for_date(date_str)
    \/ \E year_month \in MonthInputs : get_monthly_summary(year_month)
    \/ Tick

Spec == Init /\ [][Next]_vars

AllIdle == \A r \in Reqs : req[r].pc = "idle"

\* the check-in flow, one request at a time
NextCheckin ==
    \/ \E c \in Clients, site \in SiteInputs : AllIdle /\ scan(c, site)
    \/ \E r \in Reqs, c \in Clients, token \in TokenInputs :
          AllIdle /\ finalize_begin(r, c, token)
    \/ \E r \in Reqs : finalize_finish(r)
    \/ \E c \in Clients, email \in Emails \cup {Outsider} :
          AllIdle /\ auth_callback(c, email)
    \/ \E c \in Clients, email \in Emails : AllIdle /\ login_submit(c, email)
    \/ \E c \in Clients : AllIdle /\ logout(c)
    \/ AllIdle /\ Tick

SpecCheckin == Init /\ [][NextCheckin]_vars

\* overlapping /finalize requests, beside scans, logins and admin deletes
NextConcurrent ==
    \/ \E c \in Clients, site \in {NoSite, "remote"} : scan(c, site)
    \/ \E r \in Reqs, c \in Clients, token \in TokenInputs : finalize_begin(r, c, token)
    \/ \E r \in Reqs : finalize_finish(r)
    \/ \E c \in Clients, email \in Emails : auth_callback(c, email)
    \/ \E c \in Clients, email \in Emails : login_submit(c, email)
    \/ \E password \in PasswordInputs : process_admin_login(password)
    \/ \E cookie \in SentCookies, record_id \in 1 .. MaxRows :
          admin_delete_record(cookie, record_id)

SpecConcurrent == Init /\ [][NextConcurrent]_vars

\* the admin pages, beside scans
NextAdmin ==
    \/ \E c \in Clients, site \in SiteInputs : scan(c, site)
    \/ \E password \in PasswordInputs : process_admin_login(password)
    \/ admin_logout
    \/ \E cookie \in SentCookies : admin_dashboard(cookie)
    \/ \E cookie \in SentCookies, user_name \in EditNames, site \in EditSites,
          custom_date \in DateInputs : admin_add_record(cookie, user_name, site, custom_date)
    \/ \E cookie \in SentCookies, record_id \in 1 .. MaxRows, user_name \in EditNames,
          site \in EditSites, custom_date \in DateInputs :
          admin_edit_record(cookie, record_id, user_name, site, custom_date)
    \/ \E cookie \in SentCookies, record_id \in 1 .. MaxRows :
          admin_delete_record(cookie, record_id)
    \/ Tick

SpecAdmin == Init /\ [][NextAdmin]_vars

\* the metrics endpoints, beside the check-in flow one request at a time
NextMetrics ==
    \/ \E c \in Clients, site \in {NoSite, "remote"} : AllIdle /\ scan(c, site)
    \/ \E r \in Reqs, c \in Clients, token \in TokenInputs :
          AllIdle /\ finalize_begin(r, c, token)
    \/ \E r \in Reqs : finalize_finish(r)
    \/ \E c \in Clients, email \in Emails : AllIdle /\ auth_callback(c, email)
    \/ AllIdle /\ get_daily_checkins_last_week
    \/ \E date_str \in DateStrInputs : AllIdle /\ get_attendance_for_date(date_str)
    \/ \E year_month \in MonthInputs : AllIdle /\ get_monthly_summary(year_month)
    \/ AllIdle /\ Tick

SpecMetrics == Init /\ [][NextMetrics]_vars

\* the check-in flow and the admin's changes to the table, one request at a
\* time
NextRecords ==
    \/ \E c \in Clients : AllIdle /\ scan(c, NoSite)
    \/ \E r \in Reqs, c \in Clients, token \in TokenInputs :
          AllIdle /\ finalize_begin(r, c, token)
    \/ \E r \in Reqs : finalize_finish(r)
    \/ \E c \in Clients, email \in Emails : AllIdle /\ auth_callback(c, email)
    \/ AllIdle /\ process_admin_login(admin_password)
    \/ \E user_name \in EditNames, site \in EditSites, custom_date \in DateInputs :
          AllIdle /\ admin_add_record(admin_auth, user_name, site, custom_date)
    \/ \E record_id \in 1 .. MaxRows, user_name \in EditNames, site \in EditSites,
          custom_date \in DateInputs :
          AllIdle /\ admin_edit_record(admin_auth, record_id, user_name, site, custom_date)
    \/ \E record_id \in 1 .. MaxRows : AllIdle /\ admin_delete_record(admin_auth, record_id)
    \/ AllIdle /\ Tick

SpecRecords == Init /\ [][NextRecords]_vars

\* ================================================================== claims
DuplicateNote == "Attempted duplicate check-in."

\* C1: a /scan followed by a /finalize with the scan's token, by an
\* authenticated email with no valid finalized row for today, returns ok:true
\* and leaves exactly one valid finalized row for that email and date.
C1_ScanThenFinalize ==
    [][\A r \in Reqs :
        LET pk == req[r].pk
            e == req[r].email
            today == LocalDate(now)
        IN
        (/\ req[r].pc = "checked" /\ req'[r].pc = "idle"
         /\ e \in Emails
         /\ \E row \in attendance : /\ row.id = pk
                                    /\ row.user_email = e
                                    /\ row.local_date = today
                                    /\ row.is_valid
                                    /\ row.source = "qr_scan_provisional"
         /\ Finalized(attendance, e, today) = {})
        => /\ last'.ok = "true"
           /\ Cardinality(Finalized(attendance', e, today)) = 1
           /\ \E row \in Finalized(attendance', e, today) : row.id = pk]_vars

\* C2: in sequential requests of one email on one local date, the first
\* finalize of a provisional row makes it the finalized row, every later
\* finalize of another provisional row marks that row invalid with a
\* duplicate note, and no email and date ever has two valid finalized rows.
C2_FirstFinalizeWins ==
    [][\A r \in Reqs :
        LET pk == req[r].pk
            e == req[r].email
            today == LocalDate(now)
        IN
        (/\ req[r].pc = "checked" /\ req'[r].pc = "idle"
         /\ e \in Emails
         /\ \E row \in attendance : /\ row.id = pk
                                    /\ row.user_email = e
                                    /\ row.local_date = today
                                    /\ row.is_valid
                                    /\ row.source = "qr_scan_provisional")
        => /\ IF Finalized(attendance, e, today) = {}
              THEN \E row \in Finalized(attendance', e, today) : row.id = pk
              ELSE \E row \in attendance' : /\ row.id = pk
                                            /\ row.is_valid = FALSE
                                            /\ row.notes = DuplicateNote
           /\ \A e2 \in Emails, d \in 0 .. MaxTick :
                 Cardinality(Finalized(attendance', e2, d)) <= 1]_vars

\* C3: two overlapping /finalize requests of one email, for two provisional
\* rows of the same local date, that both passed the duplicate lookup both
\* return ok:true and leave their rows valid and finalized.
C3_BothConcurrentFinalizesSucceed ==
    [][\A r \in Reqs, q \in Reqs :
        (/\ r # q
         /\ req[r].pc = "checked" /\ req'[r].pc = "idle"
         /\ req[q].pc = "checked"
         /\ req[r].email \in Emails
         /\ req[q].email = req[r].email
         /\ req[q].pk # req[r].pk
         /\ ~req[r].dup /\ ~req[q].dup
         /\ {req[r].pk, req[q].pk} \subseteq Ids(attendance))
        => /\ last'.ok = "true"
           /\ \E row \in attendance' : /\ row.id = req[r].pk
                                       /\ row.is_valid
                                       /\ row.source = "qr_scan_finalized"]_vars

\* the two requests of C3 have both passed the duplicate lookup and neither
\* has committed
C3_BothPassedLookup ==
    /\ req["r1"].pc = "checked" /\ req["r2"].pc = "checked"
    /\ req["r1"].email \in Emails
    /\ req["r2"].email = req["r1"].email
    /\ req["r1"].pk # req["r2"].pk
    /\ ~req["r1"].dup /\ ~req["r2"].dup
    /\ \E a \in attendance, b \in attendance :
          /\ a.id = req["r1"].pk /\ b.id = req["r2"].pk
          /\ a.local_date = b.local_date
          /\ a.user_email = req["r1"].email /\ b.user_email = req["r1"].email
          /\ a.source = "qr_scan_provisional" /\ b.source = "qr_scan_provisional"

C5_BadTokens ==
    [][\A r \in Reqs, c \in Clients, token \in TokenInputs :
        finalize_begin(r, c, token)
        => /\ token = BadToken
                => /\ last'.status = 400
                   /\ attendance' = attendance
           /\ (token # BadToken /\ ~\E row \in attendance : Str(row.id) = token)
                => /\ last'.status = 404
                   /\ attendance' = attendance]_vars

\* an unknown token was answered 404 while the table holds rows
C5_NotFound ==
    /\ last.op = "finalize"
    /\ last.status = 404
    /\ attendance # {}

\* C6 as stated: every /scan by an authenticated session inserts exactly one
\* row, a valid provisional check-in with the session's name and email and an
\* allowed site, returns its id as the token and changes no other row.
C6_ScanInsertsOneRow ==
    [][\A c \in Clients, site \in SiteInputs :
        (scan(c, site) /\ session[c].user # NoUser)
        => \E row \in attendance' :
              /\ row.id \notin Ids(attendance)
              /\ attendance' = attendance \cup {row}
              /\ row.event_type = "check_in"
              /\ row.is_valid
              /\ row.source = "qr_scan_provisional"
              /\ row.user_email = session[c].user
              /\ row.user_name = NameOf(session[c].user)
              /\ row.site \in sites
              /\ site \in sites => row.site = site
              /\ site \notin sites => row.site = default_site
              /\ last'.token = Str(row.id)]_vars

\* C6 as amended: the row carries the session's name and email when SSO is
\* required, and no name and no email when it is not.
C6_ScanInsertsOneRowUnderSSO ==
    [][\A c \in Clients, site \in SiteInputs :
        (scan(c, site) /\ session[c].user # NoUser)
        => \E row \in attendance' :
              /\ row.id \notin Ids(attendance)
              /\ attendance' = attendance \cup {row}
              /\ row.event_type = "check_in"
              /\ row.is_valid
              /\ row.source = "qr_scan_provisional"
              /\ sso_required => /\ row.user_email = session[c].user
                                 /\ row.user_name = NameOf(session[c].user)
              /\ ~sso_required => /\ row.user_email = NoUser
                                  /\ row.user_name = NoValue
              /\ row.site \in sites
              /\ site \in sites => row.site = site
              /\ site \notin sites => row.site = default_site
              /\ last'.token = Str(row.id)]_vars

\* a scan by an email that already has a valid finalized row for the day
C6_ScannedWhileCheckedIn ==
    /\ sso_required
    /\ last.op = "scan"
    /\ last.status = 200
    /\ \E row \in attendance :
          /\ Str(row.id) = last.token
          /\ row.user_email \in Emails
          /\ row.source = "qr_scan_provisional"
          /\ Finalized(attendance, row.user_email, row.local_date) # {}

\* C7: with SSO required and no user in the session, /scan stores the
\* requested site (the default site when none is given) as intended_site,
\* redirects to /login and leaves the table unchanged.
C7_ScanDefersToLogin ==
    [][\A c \in Clients, site \in SiteInputs :
        (scan(c, site) /\ sso_required /\ session[c].user = NoUser)
        => /\ session'[c].intended_site = (IF site = NoSite THEN default_site ELSE site)
           /\ session'[c].user = NoUser
           /\ last'.location = "/login"
           /\ attendance' = attendance
           /\ next_id' = next_id]_vars

\* a scan was sent to the login page with its site kept in the session
C7_Deferred ==
    /\ sso_required
    /\ last.op = "scan"
    /\ last.location = "/login"
    /\ \E c \in Clients : session[c].user = NoUser /\ session[c].intended_site = "remote"
    /\ attendance # {}

\* C8: each of GET /admin, POST /admin/add, /admin/edit and /admin/delete,
\* sent without the secret cookie, redirects to /admin/login and leaves the
\* table unchanged; the cookie is set only by a POST /admin/login with the
\* configured password.
C8_AdminGate ==
    [][/\ \A cookie \in {NoCookie, "forged"} :
            (\/ admin_dashboard(cookie)
             \/ \E user_name \in EditNames, site \in EditSites, custom_date \in DateInputs :
                   admin_add_record(cookie, user_name, site, custom_date)
             \/ \E record_id \in 1 .. MaxRows, user_name \in EditNames, site \in EditSites,
                   custom_date \in DateInputs :
                   admin_edit_record(cookie, record_id, user_name, site, custom_date)
             \/ \E record_id \in 1 .. MaxRows : admin_delete_record(cookie, record_id))
            => /\ last'.location = "/admin/login"
               /\ attendance' = attendance
               /\ next_id' = next_id
       /\ (admin_auth' = super_secret_token /\ admin_auth # super_secret_token)
            => /\ last'.op = "admin_login"
               /\ last'.location = "/admin"
       /\ \A password \in PasswordInputs \ {admin_password} :
            process_admin_login(password) => admin_auth' = admin_auth]_vars

\* a delete without the secret cookie was sent to the login page
C8_Refused ==
    /\ last.op = "admin_delete"
    /\ last.location = "/admin/login"
    /\ admin_auth # super_secret_token
    /\ attendance # {}

\* C9: /logout empties the session and redirects home; from then on, with SSO
\* required, a /scan redirects to /login and adds no row, until a login puts
\* a user into the session again.
C9_LogoutClearsSession ==
    [][\A c \in Clients :
        /\ logout(c) => /\ session'[c] = [user |-> NoUser, intended_site |-> NoValue]
                        /\ last'.location = "/"
                        /\ attendance' = attendance
        /\ (session[c].user = NoUser /\ session'[c].user # NoUser)
              => last'.op \in {"auth_callback", "login"}
        /\ \A site \in SiteInputs :
              (scan(c, site) /\ sso_required /\ session[c].user = NoUser)
              => /\ last'.location = "/login"
                 /\ attendance' = attendance]_vars

\* a user who had scanned has logged out and was sent to the login page by
\* the next scan
C9_ScanAfterLogout ==
    /\ sso_required
    /\ \A c \in Clients : session[c].user = NoUser
    /\ last.op = "scan"
    /\ last.location = "/login"
    /\ \E row \in attendance :
          row.source = "qr_scan_provisional" /\ row.user_email \in Emails

\* C10: the open database sessions are exactly those of the requests in
\* flight, one each: a request's session is closed when the request ends,
\* whatever its outcome, and no two requests share one.
C10_SessionsReleased ==
    LET inflight == {r \in Reqs : req[r].pc # "idle"} IN
    /\ db_open = {req[r].db : r \in inflight}
    /\ \A r \in inflight, q \in inflight : r # q => req[r].db # req[q].db

\* a request ended with an uncaught exception while another is in flight:
\* the first one's session is closed, the other's is open
C10_ClosedAfterException ==
    /\ last.op = "finalize"
    /\ last.outcome = "exception"
    /\ Cardinality(db_open) = 1
    /\ \E r \in Reqs : req[r].pc = "checked" /\ db_open = {req[r].db}

\* C11: /api/metrics/daily_checkins_last_week answers with seven labels, the
\* seven consecutive dates that end today in ascending order, and seven data
\* values, data[i] being the number of valid check-in rows whose timestamp
\* falls on labels[i], 0 where there is none.
C11_DailyCheckinsLastWeek ==
    [][get_daily_checkins_last_week =>
        LET b == last'.body
            today == UtcDate(now)
        IN
        /\ last'.status = 200
        /\ Len(b.labels) = 7
        /\ Len(b.data) = 7
        /\ \A i \in 1 .. 7 :
              /\ b.labels[i] = today - 7 + i
              /\ b.data[i] = Cardinality({row \in attendance :
                                            /\ row.event_type = "check_in"
                                            /\ row.is_valid = TRUE
                                            /\ UtcDate(row.timestamp_utc) = b.labels[i]})]_vars

\* the sum of one component of the entries of a breakdown
RECURSIVE SumOver(_, _)
SumOver(breakdown, i) ==
    IF breakdown = {}
    THEN 0
    ELSE LET e == CHOOSE x \in breakdown : TRUE
         IN e[i] + SumOver(breakdown \ {e}, i)

\* C12: for a well-formed month the monthly summary's total_checkins is the
\* number of valid check-in rows of that month, the counts of the reason keys
\* and of the business-line keys each add up to it, their percentages add up
\* to 100% within rounding, and an empty month gets 0% with no division error.
C12_MonthlySummary ==
    [][\A year_month \in MonthInputs :
        (get_monthly_summary(year_month) /\ year_month >= 0) =>
        LET b == last'.body
            rows == {row \in attendance : /\ MonthOf(row.timestamp_utc) = year_month
                                          /\ row.event_type = "check_in"
                                          /\ row.is_valid = TRUE}
        IN
        /\ last'.status = 200
        /\ b.total_checkins = Cardinality(rows)
        /\ \A bd \in {b.reason_breakdown, b.business_line_breakdown} :
              /\ SumOver(bd, 2) = b.total_checkins
              /\ b.total_checkins > 0 =>
                    /\ SumOver(bd, 3) - 1000 <= Cardinality(bd)
                    /\ 1000 - SumOver(bd, 3) <= Cardinality(bd)
              /\ b.total_checkins = 0 => \A e \in bd : e[3] = 0]_vars

\* C13: a well-formed custom_date sent to POST /admin/add or POST /admin/edit
\* is read as New York wall-clock time: the row's timestamp_utc is that
\* instant in UTC and its local_date is the New York calendar date, also when
\* the two fall on different UTC days.
C13_CustomDateIsNewYorkTime ==
    [][\A cookie \in SentCookies, user_name \in EditNames, site \in EditSites,
          custom_date \in DateInputs \ {BadDate} :
        /\ (admin_add_record(cookie, user_name, site, custom_date)
            /\ cookie = super_secret_token /\ next_id <= MaxRows)
           => \E row \in attendance' \ attendance :
                 /\ row.timestamp_utc = custom_date + NYOffset
                 /\ row.local_date = LocalDate(row.timestamp_utc)
        /\ \A record_id \in Ids(attendance) :
             (admin_edit_record(cookie, record_id, user_name, site, custom_date)
              /\ cookie = super_secret_token)
             => \E row \in attendance' :
                   /\ row.id = record_id
                   /\ row.timestamp_utc = custom_date + NYOffset
                   /\ row.local_date = LocalDate(row.timestamp_utc)]_vars

\* C14: /api/metrics/attendance/{date} answers 400 for a date of the wrong
\* format or one that names no day; otherwise it returns the rows with that
\* local_date, event_type check_in and is_valid true, and no others, in
\* ascending order of timestamp_utc, and changes no row.
C14_AttendanceForDate ==
    [][\A date_str \in DateStrInputs :
        get_attendance_for_date(date_str) =>
        LET recs == last'.body.records IN
        IF date_str \in {BadFormat, OutOfRange}
        THEN last'.status = 400
        ELSE /\ last'.status = 200
             /\ {recs[i] : i \in 1 .. Len(recs)} =
                   {row \in attendance : /\ row.local_date = date_str
                                         /\ row.event_type = "check_in"
                                         /\ row.is_valid}
             /\ Len(recs) = Cardinality({recs[i] : i \in 1 .. Len(recs)})
             /\ \A i \in 1 .. Len(recs) - 1 :
                   recs[i].timestamp_utc <= recs[i + 1].timestamp_utc
             /\ attendance' = attendance]_vars

C16_NoEmailNoDuplicateCheck ==
    [][\A r \in Reqs :
        LET pk == req[r].pk IN
        (/\ req[r].pc = "checked" /\ req'[r].pc = "idle"
         /\ req[r].email = NoUser
         /\ pk \in Ids(attendance))
        => /\ ~req[r].dup
           /\ last'.ok = "true"
           /\ \E row \in attendance' : row.id = pk /\ row.source = "qr_scan_finalized"]_vars

====
